---- MODULE Spec2Model ----
(***************************************************************************)
(* DynamicCompletions: a model of the completion Loader state machine      *)
(* (CompletionLoader.get_completions and its variants), of the result      *)
(* merge (get_completions_from_queue) and of one aggregation request       *)
(* (on_query_completions / add_completions_to_queue with its two pool      *)
(* workers).                                                               *)
(***************************************************************************)
EXTENDS Integers, Sequences, FiniteSets, TLC

VARIABLES
    ldef,       \* loader id -> the class attributes of the Loader (fixed)
    ld,         \* loader id -> the instance attributes of the Loader
    threads,    \* the load threads started so far (index = thread id)
    loads,      \* loader id -> number of load_completions executions started
    mtime,      \* modification time of the backing file of the FileLoaders
    readable,   \* whether os.path.getmtime succeeds on that file
    faults,     \* number of load_completions executions that raised
    frame,      \* requester -> its activation of get_completions
    ncalls,     \* number of get_completions calls begun by the requesters
    done,       \* the last completed call of the requesters and its predecessor
    pc,         \* where the thread of the aggregation request is
    cq,         \* completion_queue: the contributions put by the Loaders
    cq0,        \* the contributions in the order they were first put
    result,     \* what get_completions_from_queue returned
    plugins,    \* the Loader classes CompletionLoader.get_plugins() yields
    vdata,      \* ViewData.Data[view.id()]: scope, triggers_hash, triggers
    nreq,       \* number of on_query_completions calls so far
    completion_types, \* the completion types the Triggers yield for the request
    collected,  \* loaders: the Loader instances collected for the view
    aq,         \* async_loaders: the work queue of the asynchronous Loaders
    unfinished, \* async_loaders.unfinished_tasks, which join() waits on
    syncs,      \* sync_loaders still to be processed
    wk,         \* the pool workers running process_completers
    spawned,    \* number of worker threads started by the request
    calls,      \* <<thread, loader>>: the get_completions calls of the request
    cb,         \* which of the before/after-load callbacks the request has run
    failed,     \* the Loaders whose get_completions raised in the request
    trigfail,   \* whether a Trigger raised in the request
    registry,   \* CompletionTrigger.get_plugins(): the registered Trigger types
    view,       \* the document: the scope at each point, the selection
    tcall,      \* the last call of ViewData.get_triggers_for_view
    Instances,  \* identity key -> the Loader instance cls.Instances holds
    vloaders,   \* view id -> ViewData.loaders, the Loaders attached to it
    resolved,   \* identity key -> the instances requests for it resolved to
    tally       \* loader id -> its get_completions calls and puts in the request

loaderVars == <<ldef, ld, threads, loads, mtime, readable, faults, frame, ncalls, done>>
mergeVars == <<pc, cq, cq0, result>>
requestVars == <<plugins, vdata, nreq, completion_types, collected, aq, unfinished, syncs, wk,
                 spawned, calls, cb, failed, trigfail, tally>>
triggerVars == <<registry, view, tcall>>
instanceVars == <<Instances, vloaders, resolved>>
registryVars == <<triggerVars, instanceVars>>
vars == <<loaderVars, mergeVars, requestVars, registryVars>>

(***************************************************************************)
(* Bounds                                                                  *)
(***************************************************************************)
MaxCalls == 3      \* get_completions calls made by the two requesters
MaxMtime == 2      \* the file's mtime ranges over 1..MaxMtime
MaxFaults == 1     \* load_completions executions that may raise
MaxQueue == 3      \* contributions on the results queue of the merge
MaxAsync == 4      \* asynchronous Loader classes that may be registered
MaxObjs == 2       \* Loader instances constructed through the identity keys

(***************************************************************************)
(* Values                                                                  *)
(***************************************************************************)
Types == {"func", "var", "kw"}
Alphabet == <<"a", "b", "c", "d">>
Items == {Alphabet[i] : i \in 1..Len(Alphabet)}
Variants == {"static", "view", "file", "path"}
Requesters == {"r1", "r2"}
NoThread == 0

\* sublime.INHIBIT_WORD_COMPLETIONS and sublime.INHIBIT_EXPLICIT_COMPLETIONS
INHIBIT_WORD_COMPLETIONS == 8
INHIBIT_EXPLICIT_COMPLETIONS == 16

RECURSIVE BitOr(_, _)
BitOr(a, b) ==
    IF a = 0 THEN b
    ELSE IF b = 0 THEN a
    ELSE (IF a % 2 = 1 \/ b % 2 = 1 THEN 1 ELSE 0) + 2 * BitOr(a \div 2, b \div 2)

(***************************************************************************)
(* self.completions is a flat collection or a dict keyed by completion     *)
(* type.  A cache is the record [kind, keys, items]: items holds the pairs *)
(* <<key, item>>, with key "*" in a flat collection.                       *)
(***************************************************************************)
FlatCache(S) == [kind |-> "flat", keys |-> {}, items |-> {<<"*", x>> : x \in S}]
DictCache(K, P) == [kind |-> "dict", keys |-> K, items |-> P]
EmptyCache == FlatCache({})

TruthyDictLoaded(c) == c.kind = "dict" \/ c.items # {}

\* Python truthiness of self.completions: a non-empty collection, or a dict
\* with at least one key.
Truthy(c) == IF c.kind = "dict" THEN c.keys # {} ELSE c.items # {}

\* What a load can leave in self.completions.
Sources ==
    { DictCache({"func", "var"}, {<<"func", "a">>, <<"var", "b">>}),
      DictCache({"func", "kw"}, {<<"func", "a">>, <<"func", "c">>, <<"kw", "d">>}),
      FlatCache({"a", "b"}),
      EmptyCache,
      DictCache({}, {}) }

\* The content a FileLoader reads from its file, by the file's version.
FileContent(mt) == FlatCache({Alphabet[((mt + 1) % Len(Alphabet)) + 1]})

\* The contributions put on the results queue.
EmptyReturnStub == [shape |-> "single", coll |-> {"d"}, flags |-> 0]

EmptyReturn == [shape |-> "single", coll |-> {}, flags |-> 0]
Pair(S, f) == [shape |-> "pair", coll |-> S, flags |-> f]

(***************************************************************************)
(* CompletionLoader.filter_completions                                     *)
(***************************************************************************)
RECURSIVE FilterDict(_, _, _)
FilterDict(c, todo, acc) ==
    IF todo = {} THEN acc
    ELSE LET t == CHOOSE x \in todo : TRUE
         IN  IF t \in c.keys
             THEN FilterDict(c, todo \ {t},
                             acc \cup {p[2] : p \in {q \in c.items : q[1] = t}})
             ELSE FilterDict(c, todo \ {t}, acc)      \* KeyError: logged, skipped

FilterCollectionAll(c, wanted) == {p[2] : p \in c.items}

FilterCollection(c, wanted) ==
    IF c.kind = "dict"
    THEN FilterDict(c, wanted, {})
    ELSE {p[2] : p \in c.items}

FilterFlagsWordOnly == BitOr(INHIBIT_WORD_COMPLETIONS, 0)

FilterFlags == BitOr(INHIBIT_WORD_COMPLETIONS, INHIBIT_EXPLICIT_COMPLETIONS)

filter_completions(c, wanted) ==
    Pair(FilterCollection(c, wanted), FilterFlags)

(***************************************************************************)
(* The pieces of CompletionLoader.get_completions                          *)
(***************************************************************************)
IncludedAll(d, wanted) == wanted

\* Lines 242-245: the requested types that the Loader can return.
Included(d, wanted) == wanted \cap d.caps

\* refresh_completions of the four variants: [raised, stale, lmt], lmt the
\* value of last_modified_time afterwards.
RefreshResultNoRecord(d, L, mt, ok) ==
    CASE d.variant = "view" -> [raised |-> FALSE, stale |-> TRUE,
                                lmt |-> L.last_modified_time]
      [] d.variant = "file" ->
            IF ~ok THEN [raised |-> TRUE, stale |-> FALSE,
                         lmt |-> L.last_modified_time]
            ELSE [raised |-> FALSE, stale |-> mt > L.last_modified_time,
                  lmt |-> L.last_modified_time]
      [] OTHER -> [raised |-> FALSE, stale |-> FALSE,
                   lmt |-> L.last_modified_time]

RefreshResultNeverStale(d, L, mt, ok) ==
    [raised |-> FALSE, stale |-> FALSE, lmt |-> L.last_modified_time]

RefreshResult(d, L, mt, ok) ==
    CASE d.variant = "view" -> [raised |-> FALSE, stale |-> TRUE,
                                lmt |-> L.last_modified_time]
      [] d.variant = "file" ->
            IF ~ok THEN [raised |-> TRUE, stale |-> FALSE,
                         lmt |-> L.last_modified_time]
            ELSE IF mt <= L.last_modified_time
                 THEN [raised |-> FALSE, stale |-> FALSE,
                       lmt |-> L.last_modified_time]
                 ELSE [raised |-> FALSE, stale |-> TRUE, lmt |-> mt]
      [] OTHER -> [raised |-> FALSE, stale |-> FALSE,
                   lmt |-> L.last_modified_time]

\* Lines 250-253: [raised, called, stale, L].
ClearIfStale(d, L, mt, ok) ==
    IF ~Truthy(L.completions)
    THEN [raised |-> FALSE, called |-> FALSE, stale |-> FALSE, L |-> L]
    ELSE LET r == RefreshResult(d, L, mt, ok)
             L1 == [L EXCEPT !.last_modified_time = r.lmt]
         IN  [raised |-> r.raised, called |-> TRUE, stale |-> r.stale,
              L |-> IF r.stale THEN [L1 EXCEPT !.completions = EmptyCache]
                    ELSE L1]

\* Line 256
MustLoadAlways(L) == ~L.loading

MustLoadIgnoresLoading(L) == ~Truthy(L.completions)

MustLoad(L) == (~L.loading) /\ (~Truthy(L.completions))

\* Line 260
LoadsInThread(d, wait) == d.LoadAsync /\ ~wait

\* What load_completions leaves in self.completions.
LoadedData(d, mt) == IF d.variant = "file" THEN FileContent(mt) ELSE d.src

\* Lines 261-264: loading is set and the load thread `tid` started.
StartThread(L, tid) == [L EXCEPT !.loading = TRUE, !.loader_thread = tid]

\* Line 267
InlineBegin(L) == [L EXCEPT !.loading = TRUE]

\* Lines 268-270: load_completions has populated self.completions.
InlineEnd(d, L, mt) == [L EXCEPT !.completions = LoadedData(d, mt), !.loading = FALSE]

NewThread(l) == [l |-> l, st |-> "alive"]

IsAlive(ths, t) == ths[t].st # "dead"

\* Lines 272-285: [L, item].
ReportEager(L, ths, included) ==
    [L |-> [L EXCEPT !.loading = FALSE, !.loader_thread = NoThread],
     item |-> filter_completions(L.completions, included)]

Report(L, ths, included) ==
    IF L.loading
    THEN IF L.loader_thread = NoThread \/ IsAlive(ths, L.loader_thread)
         THEN [L |-> L, item |-> EmptyReturn]
         ELSE [L |-> [L EXCEPT !.loading = FALSE, !.loader_thread = NoThread],
               item |-> filter_completions(L.completions, included)]
    ELSE [L |-> L, item |-> filter_completions(L.completions, included)]

(***************************************************************************)
(* DynamicCompletionsCommand.get_completions_from_queue                    *)
(***************************************************************************)
Bare(S) == [shape |-> "bare", coll |-> S, flags |-> 0]
NoneReturn == [shape |-> "none", coll |-> {}, flags |-> 0]
NoResult == [completions |-> <<>>, flags |-> -1]

Rank(x) == CHOOSE i \in 1..Len(Alphabet) : Alphabet[i] = x

\* The elements of a collection in the order its iteration yields them.
RECURSIVE Iterate(_, _)
Iterate(S, rev) ==
    IF S = {} THEN <<>>
    ELSE LET x == IF rev THEN CHOOSE y \in S : \A z \in S : Rank(z) <= Rank(y)
                  ELSE CHOOSE y \in S : \A z \in S : Rank(y) <= Rank(z)
         IN  <<x>> \o Iterate(S \ {x}, rev)

\* list.sort()
RECURSIVE Insert(_, _)
Insert(x, sorted) ==
    IF sorted = <<>> THEN <<x>>
    ELSE IF Rank(x) <= Rank(Head(sorted)) THEN <<x>> \o sorted
    ELSE <<Head(sorted)>> \o Insert(x, Tail(sorted))

RECURSIVE Sort(_)
SortNot(xs) == xs

SortSet(xs) == Iterate({xs[i] : i \in 1..Len(xs)}, FALSE)

Sort(xs) == IF xs = <<>> THEN <<>> ELSE Insert(Head(xs), Sort(Tail(xs)))

\* Lines 141-151: the loop that empties the queue.
RECURSIVE Drain(_, _, _, _)
Drain(q, completions, flags, rev) ==
    IF q = <<>> THEN [completions |-> completions, flags |-> flags]
    ELSE LET c == Head(q)
         IN  CASE c.shape = "pair" ->
                    Drain(Tail(q), completions \o Iterate(c.coll, rev),
                          BitOr(flags, c.flags), rev)
               [] c.shape = "single" ->                  \* IndexError: pass
                    Drain(Tail(q), completions \o Iterate(c.coll, rev), flags, rev)
               [] c.shape = "bare" ->
                    Drain(Tail(q), completions \o Iterate(c.coll, rev), flags, rev)
               [] OTHER -> Drain(Tail(q), completions, flags, rev)

get_completions_from_queue(q, rev) ==
    LET d == Drain(q, <<>>, 0, rev)
    IN  [completions |-> Sort(d.completions), flags |-> d.flags]

\* No aggregation request is modelled.
NoRequest ==
    /\ plugins = {}
    /\ vdata = [exists |-> FALSE, scope |-> "", hash |-> <<>>, triggers |-> <<>>]
    /\ nreq = 0
    /\ completion_types = {}
    /\ collected = {}
    /\ aq = <<>>
    /\ unfinished = 0
    /\ syncs = <<>>
    /\ wk = <<>>
    /\ spawned = 0
    /\ calls = {}
    /\ cb = [before |-> FALSE, after |-> FALSE]
    /\ failed = {}
    /\ trigfail = FALSE
    /\ tally = <<>>

\* No call of ViewData.get_triggers_for_view has been made.
NoCall ==
    [valid |-> FALSE, stored |-> [scope |-> "", hash |-> <<>>],
     now |-> [scope |-> "", hash |-> <<>>], recomputed |-> FALSE,
     entry |-> [exists |-> FALSE, scope |-> "", hash |-> <<>>, triggers |-> <<>>],
     ret |-> <<>>, under |-> [scope |-> "", hash |-> <<>>], computed |-> <<>>]

\* No Trigger type is registered and no Loader instance is held by identity
\* key.
NoRegistry ==
    /\ registry = <<>>
    /\ view = [scopeAt |-> <<>>, sel |-> <<>>]
    /\ tcall = NoCall
    /\ Instances = <<>>
    /\ vloaders = <<>>
    /\ resolved = <<>>

(***************************************************************************)
(* Construction (CompletionLoader.__init__, FileLoader.__init__)           *)
(***************************************************************************)
NewLoader(d, mt) ==
    [completions |-> EmptyCache,
     loading |-> FALSE,
     loader_thread |-> NoThread,
     last_modified_time |-> IF d.variant = "file" THEN mt ELSE 0]

LoaderClass(v, a, caps, s) ==
    [variant |-> v, LoadAsync |-> a, caps |-> caps, src |-> s]

LoaderDef(v, a, s) == LoaderClass(v, a, {"func", "var"}, s)

LoaderDefs ==
    { LoaderDef("static", a, s) : a \in BOOLEAN, s \in Sources }
    \cup { LoaderDef("view", a, s) : a \in BOOLEAN, s \in Sources \ {EmptyCache} }
    \cup { LoaderDef("path", a, FlatCache({"a", "b"})) : a \in BOOLEAN }
    \cup { LoaderDef("file", a, EmptyCache) : a \in BOOLEAN }

IdleFrame ==
    [pc |-> "idle", l |-> 0, types |-> {}, wait |-> FALSE, included |-> {},
     L0 |-> NewLoader([variant |-> "static"], 0), loads0 |-> 0, mt0 |-> 0,
     refresh |-> "notcalled", clean |-> TRUE]

\* History is kept of the calls of a single requester, where one call follows
\* another; overlapping requesters leave none.
Recording == Cardinality(DOMAIN frame) = 1

\* History: every activation other than c's has been interleaved with.
Interleaved(fr, c) ==
    [x \in DOMAIN fr |-> IF x = c THEN fr[x] ELSE [fr[x] EXCEPT !.clean = FALSE]]

\* History: the call of requester c has completed with `item`.
Completed(c, fr, L1, n1, item, cache) ==
    LET s == [types |-> fr.types, included |-> fr.included, wait |-> fr.wait,
              L0 |-> fr.L0, loads0 |-> fr.loads0, mt0 |-> fr.mt0,
              refresh |-> fr.refresh, L1 |-> L1, loads1 |-> n1,
              out |-> item, cache |-> cache]
    IN  IF ~fr.clean \/ ~Recording THEN <<>>
        ELSE IF done = <<>> THEN <<s>>
        ELSE <<done[Len(done)], s>>

(***************************************************************************)
(* get_completions, one step at a time, by requester c                     *)
(***************************************************************************)
\* Lines 226-245: the call and the intersection with the capabilities.
GCBegin(c, l, types, wait) ==
    /\ frame[c].pc = "idle"
    /\ ncalls < MaxCalls
    /\ ncalls' = ncalls + 1
    /\ LET inc == Included(ldef[l], types)
       IN  IF inc = {}
           THEN frame' = Interleaved(frame, c)
           ELSE frame' = Interleaved(
                   [frame EXCEPT ![c] =
                       IF Recording
                       THEN [pc |-> "refresh", l |-> l, types |-> types,
                             wait |-> wait, included |-> inc, L0 |-> ld[l],
                             loads0 |-> loads[l], mt0 |-> mtime,
                             refresh |-> "notcalled", clean |-> TRUE]
                       ELSE [IdleFrame EXCEPT !.pc = "refresh", !.l = l,
                                              !.types = types, !.wait = wait,
                                              !.included = inc, !.clean = FALSE]],
                   c)
    /\ UNCHANGED <<registryVars, ldef, ld, threads, loads, mtime, readable, faults, done, mergeVars, requestVars>>

\* Lines 250-253: clear the completions when they must be refreshed.
GCRefresh(c) ==
    /\ frame[c].pc = "refresh"
    /\ LET l == frame[c].l
           r == ClearIfStale(ldef[l], ld[l], mtime, readable)
       IN  IF r.raised
           THEN /\ frame' = Interleaved([frame EXCEPT ![c] = IdleFrame], c)
                /\ done' = <<>>
                /\ ld' = ld
           ELSE /\ frame' = Interleaved(
                       [frame EXCEPT ![c].pc = "check",
                                     ![c].refresh =
                                        IF ~Recording \/ ~r.called THEN "notcalled"
                                        ELSE IF r.stale THEN "true" ELSE "false"],
                       c)
                /\ ld' = [ld EXCEPT ![l] = r.L]
                /\ done' = done
    /\ UNCHANGED <<registryVars, ldef, threads, loads, mtime, readable, faults, ncalls, mergeVars, requestVars>>

\* Line 256: the test of self.loading and self.completions.
GCCheck(c) ==
    /\ frame[c].pc = "check"
    /\ frame' = Interleaved(
            [frame EXCEPT ![c].pc =
                IF MustLoad(ld[frame[c].l]) THEN "load" ELSE "report"], c)
    /\ UNCHANGED <<registryVars, ldef, ld, threads, loads, mtime, readable, faults, ncalls, done, mergeVars, requestVars>>

\* Lines 260-264: start the load thread.
GCStartThread(c) ==
    /\ frame[c].pc = "load"
    /\ LoadsInThread(ldef[frame[c].l], frame[c].wait)
    /\ LET l == frame[c].l
       IN  /\ threads' = Append(threads, NewThread(l))
           /\ ld' = [ld EXCEPT ![l] = StartThread(@, Len(threads) + 1)]
           /\ loads' = [loads EXCEPT ![l] = @ + 1]
    /\ frame' = Interleaved([frame EXCEPT ![c].pc = "report"], c)
    /\ UNCHANGED <<registryVars, ldef, mtime, readable, faults, ncalls, done, mergeVars, requestVars>>

\* Lines 267-268: set loading and enter load_completions in this thread.
GCInlineBegin(c) ==
    /\ frame[c].pc = "load"
    /\ ~LoadsInThread(ldef[frame[c].l], frame[c].wait)
    /\ LET l == frame[c].l
       IN  /\ ld' = [ld EXCEPT ![l] = InlineBegin(@)]
           /\ loads' = [loads EXCEPT ![l] = @ + 1]
    /\ frame' = Interleaved([frame EXCEPT ![c].pc = "inline"], c)
    /\ UNCHANGED <<registryVars, ldef, threads, mtime, readable, faults, ncalls, done, mergeVars, requestVars>>

\* Lines 268-270: load_completions returns, loading is reset.
GCInlineEnd(c) ==
    /\ frame[c].pc = "inline"
    /\ LET l == frame[c].l
       IN  ld' = [ld EXCEPT ![l] = InlineEnd(ldef[l], @, mtime)]
    /\ frame' = Interleaved([frame EXCEPT ![c].pc = "report"], c)
    /\ UNCHANGED <<registryVars, ldef, threads, loads, mtime, readable, faults, ncalls, done, mergeVars, requestVars>>

\* Line 268: load_completions raises; line 270 is not reached.
GCInlineRaise(c) ==
    /\ frame[c].pc = "inline"
    /\ faults < MaxFaults
    /\ faults' = faults + 1
    /\ frame' = Interleaved([frame EXCEPT ![c] = IdleFrame], c)
    /\ done' = <<>>
    /\ UNCHANGED <<registryVars, ldef, ld, threads, loads, mtime, readable, ncalls, mergeVars, requestVars>>

\* Lines 272-287: put the placeholder or the filtered completions.
GCReport(c) ==
    /\ frame[c].pc = "report"
    /\ LET l == frame[c].l
           r == Report(ld[l], threads, frame[c].included)
       IN  /\ ld' = [ld EXCEPT ![l] = r.L]
           /\ done' = Completed(c, frame[c], r.L, loads[l], r.item,
                                ld[l].completions)
    /\ frame' = Interleaved([frame EXCEPT ![c] = IdleFrame], c)
    /\ UNCHANGED <<registryVars, ldef, threads, loads, mtime, readable, faults, ncalls, mergeVars, requestVars>>

(***************************************************************************)
(* The load thread (threading.Thread(target = self.load_completions))      *)
(***************************************************************************)
AllInterleaved(fr) == [x \in DOMAIN fr |-> [fr[x] EXCEPT !.clean = FALSE]]

\* load_completions populates self.completions.
LoadThreadWrite(t) ==
    /\ threads[t].st = "alive"
    /\ threads' = [threads EXCEPT ![t].st = "wrote"]
    /\ LET l == threads[t].l
       IN  ld' = [ld EXCEPT ![l].completions = LoadedData(ldef[l], mtime)]
    /\ frame' = AllInterleaved(frame)
    /\ done' = <<>>
    /\ UNCHANGED <<registryVars, ldef, loads, mtime, readable, faults, ncalls, mergeVars, requestVars>>

\* load_completions raises: the thread ends and nothing is written.
LoadThreadRaise(t) ==
    /\ threads[t].st = "alive"
    /\ faults < MaxFaults
    /\ faults' = faults + 1
    /\ threads' = [threads EXCEPT ![t].st = "dead"]
    /\ frame' = AllInterleaved(frame)
    /\ done' = <<>>
    /\ UNCHANGED <<registryVars, ldef, ld, loads, mtime, readable, ncalls, mergeVars, requestVars>>

\* load_completions has returned: is_alive() becomes False.
LoadThreadExit(t) ==
    /\ threads[t].st = "wrote"
    /\ threads' = [threads EXCEPT ![t].st = "dead"]
    /\ frame' = AllInterleaved(frame)
    /\ done' = <<>>
    /\ UNCHANGED <<registryVars, ldef, ld, loads, mtime, readable, faults, ncalls, mergeVars, requestVars>>

(***************************************************************************)
(* The file system                                                         *)
(***************************************************************************)
\* The backing file is rewritten: os.path.getmtime advances.
Touch ==
    /\ readable
    /\ mtime < MaxMtime
    /\ mtime' = mtime + 1
    /\ frame' = AllInterleaved(frame)
    /\ UNCHANGED <<registryVars, ldef, ld, threads, loads, readable, faults, ncalls, done, mergeVars, requestVars>>

\* The backing file is removed: os.path.getmtime raises from now on.
Unlink ==
    /\ readable
    /\ \E l \in DOMAIN ldef : ldef[l].variant = "file"
    /\ readable' = FALSE
    /\ frame' = AllInterleaved(frame)
    /\ UNCHANGED <<registryVars, ldef, ld, threads, loads, mtime, faults, ncalls, done, mergeVars, requestVars>>

(***************************************************************************)
(* LoaderSpec: one Loader instance and two overlapping requesters          *)
(***************************************************************************)
LoaderStart(R) ==
    /\ \E d \in LoaderDefs : ldef = [l \in {1} |-> d]
    /\ mtime = 1
    /\ readable = TRUE
    /\ ld = [l \in {1} |-> NewLoader(ldef[l], mtime)]
    /\ threads = <<>>
    /\ loads = [l \in {1} |-> 0]
    /\ faults = 0
    /\ frame = [c \in R |-> IdleFrame]
    /\ ncalls = 0
    /\ done = <<>>
    /\ pc = "none"
    /\ cq = <<>>
    /\ cq0 = <<>>
    /\ result = NoResult
    /\ NoRequest
    /\ NoRegistry

LoaderInit == LoaderStart(Requesters)

\* The categories a request asks for, and its wait argument (no caller in the
\* repository passes wait).
RequestSets == {{"func", "kw"}, {"var"}, {"kw"}}
Waits == {FALSE}

LoaderNext ==
    \/ \E c \in DOMAIN frame, types \in RequestSets, wait \in Waits :
          GCBegin(c, 1, types, wait)
    \/ \E c \in DOMAIN frame : GCRefresh(c)
    \/ \E c \in DOMAIN frame : GCCheck(c)
    \/ \E c \in DOMAIN frame : GCStartThread(c)
    \/ \E c \in DOMAIN frame : GCInlineBegin(c)
    \/ \E c \in DOMAIN frame : GCInlineEnd(c)
    \/ \E c \in DOMAIN frame : GCInlineRaise(c)
    \/ \E c \in DOMAIN frame : GCReport(c)
    \/ \E t \in DOMAIN threads : LoadThreadWrite(t)
    \/ \E t \in DOMAIN threads : LoadThreadRaise(t)
    \/ \E t \in DOMAIN threads : LoadThreadExit(t)
    \/ Touch
    \/ Unlink

LoaderSpec == LoaderInit /\ [][LoaderNext]_vars

(***************************************************************************)
(* SeqSpec: one Loader instance and one requester, whose calls follow one  *)
(* another while the load threads and the file system run                  *)
(***************************************************************************)
SeqInit == LoaderStart({"r1"})

SeqSpec == SeqInit /\ [][LoaderNext]_vars

(***************************************************************************)
(* Properties of the Loader state machine                                  *)
(***************************************************************************)
Ready(L) == ~L.loading /\ Truthy(L.completions)

InFlight(l) == {t \in DOMAIN threads : threads[t].l = l /\ threads[t].st # "dead"}

\* C1: at most one load of a Loader instance is in flight: two overlapping
\* requests on one asynchronous Loader, which starts empty and not loading,
\* execute load_completions once, and never are two of its load threads alive
\* together.
C1_SingleLoadInFlight ==
    \A l \in DOMAIN ld :
        ldef[l].LoadAsync =>
            /\ Cardinality(InFlight(l)) <= 1
            /\ ncalls <= 2 => loads[l] <= 1

\* The last call recorded, and the call it followed immediately.
HasCall == Len(done) >= 1
HasPair == Len(done) = 2
CurCall == done[Len(done)]
PrevCall == done[1]

C3_FileStaleness ==
    (/\ HasPair
     /\ ldef[1].variant = "file"
     /\ ~ldef[1].LoadAsync)
    => /\ CurCall.mt0 = PrevCall.mt0 => CurCall.loads1 = CurCall.loads0
       /\ CurCall.mt0 > PrevCall.mt0 =>
            /\ CurCall.loads1 = CurCall.loads0 + 1
            /\ CurCall.out = filter_completions(FileContent(CurCall.mt0),
                                                CurCall.included)

\* The items a dict-shaped cache holds for a completion type.
CacheAt(c, t) == {p[2] : p \in {q \in c.items : q[1] = t}}

\* C4: the filtered result of a call on a dict-shaped cache is the union of
\* cache[t] over the requested types that are capabilities of the Loader and
\* keys of the cache.
C4_CategoryFiltering ==
    (/\ HasCall
     /\ CurCall.cache.kind = "dict"
     /\ CurCall.out.shape = "pair")
    => CurCall.out.coll =
          UNION {CacheAt(CurCall.cache, t) :
                    t \in (CurCall.types \cap ldef[1].caps) \cap CurCall.cache.keys}

C4_Witness ==
    /\ HasCall
    /\ CurCall.cache.kind = "dict"
    /\ CurCall.out.shape = "pair"
    /\ CurCall.types = {"func", "kw"}
    /\ CurCall.cache.keys = {"func", "kw"}
    /\ CurCall.out.coll = {"a", "c"}

\* The call recorded last found the Loader loading, with a load thread.
FoundLoading == HasCall /\ CurCall.L0.loading /\ CurCall.L0.loader_thread # NoThread

\* C15: a call that finds the Loader loading and its load thread finished
\* leaves loading = False and loader_thread = None, starts no load, and puts
\* the filtered completions that the finished load left, whatever
\* refresh_completions returns.
C15_FinalizeFinishedLoad ==
    (FoundLoading /\ ~IsAlive(threads, CurCall.L0.loader_thread)) =>
        /\ ~CurCall.L1.loading
        /\ CurCall.L1.loader_thread = NoThread
        /\ CurCall.loads1 = CurCall.loads0
        /\ CurCall.out = filter_completions(CurCall.L0.completions, CurCall.included)

\* C16 as stated: every recorded call on a ViewLoader runs load_completions.
C16_ViewAlwaysReloads ==
    (HasCall /\ ldef[1].variant = "view") =>
        CurCall.loads1 = CurCall.loads0 + 1

\* C16: every call on a ViewLoader that finds it not loading runs
\* load_completions, whatever the earlier calls were and whether the Loader
\* is synchronous or asynchronous.
C16_ViewReloadsUnlessLoading ==
    (HasCall /\ ldef[1].variant = "view" /\ ~CurCall.L0.loading) =>
        CurCall.loads1 = CurCall.loads0 + 1

\* The second of two calls on a ViewLoader that holds completions reloads.
C16_Witness ==
    /\ HasPair
    /\ ldef[1].variant = "view"
    /\ Ready(CurCall.L0)
    /\ CurCall.refresh = "true"
    /\ CurCall.loads0 = 1
    /\ CurCall.loads1 = 2

\* C17: a call that finds the Loader loading and its load thread alive puts
\* the placeholder, starts no load, and leaves loading and loader_thread.
C17_RepeatedRequestDuringLoad ==
    (FoundLoading /\ IsAlive(threads, CurCall.L0.loader_thread)) =>
        /\ CurCall.out = EmptyReturn
        /\ CurCall.loads1 = CurCall.loads0
        /\ CurCall.L1.loading
        /\ CurCall.L1.loader_thread = CurCall.L0.loader_thread
        /\ Cardinality(InFlight(1)) = 1

\* The second of two calls found the thread that the first had started.
C17_Witness ==
    /\ HasPair
    /\ FoundLoading
    /\ IsAlive(threads, CurCall.L0.loader_thread)
    /\ PrevCall.loads1 = PrevCall.loads0 + 1
    /\ CurCall.out = EmptyReturn
    /\ CurCall.loads1 = 1

\* A load of Loader l is in flight: its thread is alive, or a requester is in
\* load_completions.
LoadInFlight(l) ==
    /\ ld[l].loading
    /\ \/ InFlight(l) # {}
       \/ \E c \in DOMAIN frame : frame[c].pc = "inline" /\ frame[c].l = l

\* This step of requester c evaluates self.completions (line 251, line 256).
ReadsCache(c) ==
    /\ frame'[c] # frame[c]
    /\ \/ frame[c].pc = "refresh"
       \/ frame[c].pc = "check" /\ ~ld[frame[c].l].loading

\* C18: self.completions changes only in a step taken while loading is True,
\* and a requester evaluates it only when no load of the Loader is in flight.
C18_CacheDiscipline ==
    [][/\ \A l \in DOMAIN ld :
             ld'[l].completions # ld[l].completions => ld[l].loading
       /\ \A c \in DOMAIN frame :
             ReadsCache(c) => ~LoadInFlight(frame[c].l)]_vars

\* self.completions holds nothing: [], set() or {}.
Empty(c) == c.keys = {} /\ c.items = {}

\* The call recorded last found the Loader with nothing in completions after
\* a load had completed: not loading, or loading with its thread finished.
EmptyAfterLoad ==
    /\ HasCall
    /\ CurCall.loads0 >= 1
    /\ Empty(CurCall.L0.completions)
    /\ faults = 0
    /\ CurCall.L0.loading =>
          /\ CurCall.L0.loader_thread # NoThread
          /\ ~IsAlive(threads, CurCall.L0.loader_thread)

\* C24 as stated: every call that follows a load which left completions
\* empty starts a new load.
C24_EmptyAlwaysReloads ==
    EmptyAfterLoad => CurCall.loads1 = CurCall.loads0 + 1

\* C24: every call that finds the Loader not loading and its completions
\* empty after an earlier load starts a new load, whatever the staleness
\* policy; the instance is then as a new one, but for last_modified_time.
C24_EmptyReloadsUnlessLoading ==
    (/\ HasCall
     /\ CurCall.loads0 >= 1
     /\ Empty(CurCall.L0.completions)
     /\ ~CurCall.L0.loading)
    => /\ CurCall.loads1 = CurCall.loads0 + 1
       /\ CurCall.L0.loader_thread = NoThread

\* The second of two calls on a synchronous StaticLoader whose load leaves an
\* empty dict loads again, refresh_completions not being consulted.
C24_Witness ==
    /\ HasPair
    /\ ldef[1].variant = "static"
    /\ ~ldef[1].LoadAsync
    /\ ldef[1].src = DictCache({}, {})
    /\ PrevCall.loads1 = 1
    /\ CurCall.L0.completions = DictCache({}, {})
    /\ ~CurCall.L0.loading
    /\ CurCall.refresh = "notcalled"
    /\ CurCall.loads1 = 2

\* No get_completions call is executing on Loader l.
Quiescent(l) == \A c \in DOMAIN frame : frame[c].pc = "idle" \/ frame[c].l # l

\* C22: whenever no get_completions call is executing on a Loader, loading =
\* True implies that loader_thread is not None, so that a later request
\* finalizes the load instead of receiving the placeholder again.
C22_NoStuckLoading ==
    \A l \in DOMAIN ld :
        (Quiescent(l) /\ ld[l].loading) => ld[l].loader_thread # NoThread

(***************************************************************************)
(* MergeSpec: get_completions_from_queue on the contributions of a round,  *)
(* put on the queue in any order                                           *)
(***************************************************************************)
Contributions ==
    { Bare({"b", "a"}), Bare({}), Pair({"c"}, INHIBIT_WORD_COMPLETIONS),
      Pair({"d", "a"}, INHIBIT_EXPLICIT_COMPLETIONS),
      filter_completions(FlatCache({"b"}), {"func"}), EmptyReturn, NoneReturn }

RECURSIVE SeqsUpTo(_, _)
SeqsUpTo(S, n) ==
    IF n = 0 THEN {<<>>}
    ELSE LET shorter == SeqsUpTo(S, n - 1)
         IN  shorter \cup {Append(q, x) : q \in shorter, x \in S}

MergeInit ==
    /\ ldef = <<>>
    /\ ld = <<>>
    /\ threads = <<>>
    /\ loads = <<>>
    /\ mtime = 1
    /\ readable = TRUE
    /\ faults = 0
    /\ frame = <<>>
    /\ ncalls = 0
    /\ done = <<>>
    /\ NoRequest
    /\ NoRegistry
    /\ pc = "queued"
    /\ cq0 \in SeqsUpTo(Contributions, MaxQueue)
    /\ cq = cq0
    /\ result = NoResult

\* Two Loaders put their contributions in the other order.
PutSwapped(i) ==
    /\ pc = "queued"
    /\ i \in 1..(Len(cq) - 1)
    /\ cq[i] # cq[i + 1]
    /\ cq' = [cq EXCEPT ![i] = cq[i + 1], ![i + 1] = cq[i]]
    /\ UNCHANGED <<registryVars, loaderVars, requestVars, pc, cq0, result>>

\* get_completions_from_queue empties the queue.
MergeQueue(rev) ==
    /\ pc = "queued"
    /\ result' = get_completions_from_queue(cq, rev)
    /\ cq' = <<>>
    /\ pc' = "merged"
    /\ UNCHANGED <<registryVars, loaderVars, requestVars, cq0>>

MergeNext ==
    \/ \E i \in 1..MaxQueue : PutSwapped(i)
    \/ \E rev \in BOOLEAN : MergeQueue(rev)

MergeSpec == MergeInit /\ [][MergeNext]_vars

\* The OR of the flags of the (collection, flags) pairs among the contributions.
RECURSIVE OrOfFlags(_)
OrOfFlags(S) ==
    IF S = {} THEN 0
    ELSE LET c == CHOOSE x \in S : TRUE
         IN  BitOr(IF c.shape = "pair" THEN c.flags ELSE 0, OrOfFlags(S \ {c}))

IsSorted(xs) == \A i \in 1..(Len(xs) - 1) : Rank(xs[i]) <= Rank(xs[i + 1])

\* C5: whatever the order in which the contributions were put, the merge
\* returns the same sorted list, that of the order they were first put in,
\* and the OR of all the flags.
C5_MergeCommutes ==
    pc = "merged" =>
        /\ result.completions = get_completions_from_queue(cq0, FALSE).completions
        /\ IsSorted(result.completions)
        /\ result.flags = OrOfFlags({cq0[i] : i \in 1..Len(cq0)})

C5_Witness ==
    /\ pc = "merged"
    /\ Len(cq0) = 3
    /\ cq0[1] = Pair({"c"}, INHIBIT_WORD_COMPLETIONS)
    /\ cq0[2] = Bare({"b", "a"})
    /\ cq0[3] = Pair({"d", "a"}, INHIBIT_EXPLICIT_COMPLETIONS)
    /\ result.completions = <<"a", "a", "b", "c", "d">>
    /\ result.flags = 24

\* The number of times x occurs in the list xs.
Count(xs, x) == Cardinality({i \in 1..Len(xs) : xs[i] = x})

\* C14: the merged list is sorted ascending and holds every item as many times
\* as there are queued contributions whose collection holds it (nothing is
\* dropped, nothing is deduplicated across Loaders); the flags are the OR of
\* the contributed flags; an empty queue yields ([], 0).
C14_MergeResult ==
    pc = "merged" =>
        /\ IsSorted(result.completions)
        /\ \A x \in Items :
              Count(result.completions, x) =
                  Cardinality({i \in 1..Len(cq0) : x \in cq0[i].coll})
        /\ result.flags = OrOfFlags({cq0[i] : i \in 1..Len(cq0)})
        /\ cq0 = <<>> => result = [completions |-> <<>>, flags |-> 0]

\* Two Loaders contribute "a": it is kept twice.
C14_Witness ==
    /\ pc = "merged"
    /\ cq0 = <<Pair({"d", "a"}, INHIBIT_EXPLICIT_COMPLETIONS), EmptyReturn,
               Bare({"b", "a"})>>
    /\ result = [completions |-> <<"a", "a", "b", "d">>, flags |-> 16]

(***************************************************************************)
(* get_completions as one step: the composition of its pieces, as a thread *)
(* of an aggregation request runs it.  `fail` says that load_completions   *)
(* raises if it is run inline.                                             *)
(***************************************************************************)
GetCompletions(d, L, wanted, wait, mt, ok, ths, l, fail) ==
    LET inc == Included(d, wanted)
        same == [raised |-> FALSE, L |-> L, put |-> <<>>, ths |-> ths, loaded |-> FALSE]
    IN  IF inc = {} THEN same
        ELSE
        LET r == ClearIfStale(d, L, mt, ok)
        IN  IF r.raised THEN [same EXCEPT !.raised = TRUE]
            ELSE IF ~MustLoad(r.L)
            THEN LET rep == Report(r.L, ths, inc)
                 IN  [same EXCEPT !.L = rep.L, !.put = <<rep.item>>]
            ELSE IF LoadsInThread(d, wait)
            THEN LET ths2 == Append(ths, NewThread(l))
                     rep == Report(StartThread(r.L, Len(ths2)), ths2, inc)
                 IN  [raised |-> FALSE, L |-> rep.L, put |-> <<rep.item>>,
                      ths |-> ths2, loaded |-> TRUE]
            ELSE IF fail
            THEN [raised |-> TRUE, L |-> InlineBegin(r.L), put |-> <<>>,
                  ths |-> ths, loaded |-> TRUE]
            ELSE LET rep == Report(InlineEnd(d, InlineBegin(r.L), mt), ths, inc)
                 IN  [raised |-> FALSE, L |-> rep.L, put |-> <<rep.item>>,
                      ths |-> ths, loaded |-> TRUE]

(***************************************************************************)
(* Triggers (CompletionTrigger) and the document's cache entry (ViewData)  *)
(***************************************************************************)
Pos == {0, 10}
Scopes == {<<"source.python">>, <<"text.plain">>}

\* CompletionTrigger.get_plugins(), and what each Trigger class defines.
TriggerPlugins == <<1, 2>>
TriggerClass(t) ==
    IF t = 1
    THEN [name |-> "T1", view_scope |-> "source.python",
          selection_scope |-> "source.python", handles |-> {"func"}]
    ELSE [name |-> "T2", view_scope |-> "text.plain",
          selection_scope |-> "text.plain", handles |-> {"var"}]

\* view.score_selector(point, selector): positive when the selector is one of
\* the scopes of the scope name at the point.
score_selector(scopeAt, p, selector) ==
    IF \E i \in 1..Len(scopeAt[p]) : scopeAt[p][i] = selector THEN 1 ELSE 0

MaxOf(S) == CHOOSE m \in S : \A x \in S : x <= m

\* Lines 46-53: max([]) raises ValueError, which falls back to point 0.
view_scope_check(t, scopeAt, sel) ==
    IF sel = <<>>
    THEN score_selector(scopeAt, 0, TriggerClass(t).view_scope)
    ELSE MaxOf({score_selector(scopeAt, sel[i], TriggerClass(t).view_scope) :
                    i \in 1..Len(sel)})

view_check(t) == TRUE

\* Lines 30-39
get_triggers_for_view(reg, scopeAt, sel) ==
    SelectSeq(reg,
              LAMBDA t : view_scope_check(t, scopeAt, sel) > 0 /\ view_check(t))

\* Lines 551-559: the first scope of the scope name at the first selection,
\* or at point 0 (scope.split(' ')[0]).
scope_from_view(scopeAt, sel) ==
    IF sel = <<>> THEN Head(scopeAt[0]) ELSE Head(scopeAt[sel[1]])

\* Lines 561-563: hash(str(get_plugins())), a function of the names of the
\* registered Trigger types in their order.
get_triggers_hash(reg) == [i \in 1..Len(reg) |-> TriggerClass(reg[i]).name]

\* Lines 494-499 and 547-549: ViewData(view), a new cache entry.
NewViewData(reg, scopeAt, sel) ==
    [exists |-> TRUE, scope |-> scope_from_view(scopeAt, sel),
     hash |-> get_triggers_hash(reg),
     triggers |-> get_triggers_for_view(reg, scopeAt, sel)]

\* Lines 502-509
get_data(vd, reg, scopeAt, sel) ==
    IF vd.exists THEN vd ELSE NewViewData(reg, scopeAt, sel)

NeedsUpdateScopeOnly(d, scope, hash_) == d.scope # scope

\* Line 522
NeedsUpdate(d, scope, hash_) == (d.scope # scope) \/ (d.hash # hash_)

\* Lines 511-527: ViewData.get_triggers_for_view; the entry afterwards, whose
\* triggers are returned.
ViewDataTriggers(vd, reg, scopeAt, sel) ==
    LET d == get_data(vd, reg, scopeAt, sel)
    IN  IF NeedsUpdate(d, scope_from_view(scopeAt, sel), get_triggers_hash(reg))
        THEN NewViewData(reg, scopeAt, sel)
        ELSE d

\* Lines 70-80: with no location max([]) raises ValueError and the handler
\* raises NameError (l is not bound there): [raised, score].
selection_scope_check(t, scopeAt, locs) ==
    IF locs = <<>> THEN [raised |-> TRUE, score |-> 0]
    ELSE [raised |-> FALSE,
          score |-> MaxOf({score_selector(scopeAt, locs[i],
                                          TriggerClass(t).selection_scope) :
                              i \in 1..Len(locs)})]

\* Lines 97-104: [raised, types].  check[t] is what selection_check of Trigger
\* t does: it returns the types it handles, returns nothing, or raises.
RECURSIVE get_completion_types(_, _, _, _, _)
get_completion_types(trigs, scopeAt, locs, check, acc) ==
    IF trigs = <<>> THEN [raised |-> FALSE, types |-> acc]
    ELSE LET t == Head(trigs)
             sc == selection_scope_check(t, scopeAt, locs)
         IN  IF sc.raised THEN [raised |-> TRUE, types |-> acc]
             ELSE IF sc.score > 0
             THEN IF check[t] = "raise" THEN [raised |-> TRUE, types |-> acc]
                  ELSE get_completion_types(
                           Tail(trigs), scopeAt, locs, check,
                           acc \cup (IF check[t] = "handles"
                                     THEN TriggerClass(t).handles ELSE {}))
             ELSE get_completion_types(Tail(trigs), scopeAt, locs, check, acc)

(***************************************************************************)
(* The aggregation request (DynamicCompletionsCommand)                     *)
(***************************************************************************)
FanOutThreshold == 3
PoolSize == 2
MainThread == 0
Workers == 1..PoolSize

\* The Loader classes that may be registered: a synchronous StaticLoader, a
\* synchronous FileLoader, an asynchronous StaticLoader, an asynchronous
\* FileLoader, and asynchronous StaticLoaders of keywords.
LoaderIds == 1..(2 + MaxAsync)
LoaderTable(l) ==
    CASE l = 1 -> LoaderClass("static", FALSE, {"func"}, FlatCache({"a", "b"}))
      [] l = 2 -> LoaderClass("file", FALSE, {"func"}, EmptyCache)
      [] l = 3 -> LoaderClass("static", TRUE, {"func", "var"},
                              DictCache({"func", "var"},
                                        {<<"func", "d">>, <<"var", "b">>}))
      [] l = 4 -> LoaderClass("file", TRUE, {"var"}, EmptyCache)
      [] OTHER -> LoaderClass("static", TRUE, {"kw"}, FlatCache({"d"}))

\* The members of a set of Loaders, in the order its iteration yields them.
RECURSIVE InOrder(_)
InOrder(S) ==
    IF S = {} THEN <<>>
    ELSE LET x == CHOOSE y \in S : \A z \in S : y <= z
         IN  <<x>> \o InOrder(S \ {x})

IdleWorkers == [w \in Workers |-> [pc |-> "none", c |-> 0]]

NothingToOfferNever(S) == FALSE

\* Line 25 and line 42: nothing to offer.
NothingToOffer(S) == S = {}

\* Lines 19-46 and 59-76: the completion types, the before-load callbacks, the
\* Loader instances and their two groups.
OnQueryCompletions(scopeAt, sel, locs, check) ==
    /\ pc = "idle"
    /\ nreq' = nreq + 1
    /\ vdata' = ViewDataTriggers(vdata, registry, scopeAt, sel)
    /\ calls' = {}
    /\ tally' = [l \in plugins |-> [called |-> 0, put |-> 0]]
    /\ failed' = {}
    /\ spawned' = 0
    /\ wk' = IdleWorkers
    /\ cq' = <<>>
    /\ cq0' = <<>>
    /\ result' = NoResult
    /\ LET r == get_completion_types(vdata'.triggers, scopeAt, locs, check, {})
           go == ~r.raised /\ ~NothingToOffer(r.types)
           loaders == IF go THEN plugins ELSE {}
           asyncs == InOrder({l \in loaders : ldef[l].LoadAsync})
       IN  /\ trigfail' = r.raised
           /\ completion_types' = IF r.raised THEN {} ELSE r.types
           /\ cb' = [before |-> go, after |-> FALSE]
           /\ collected' = loaders
           /\ aq' = asyncs
           /\ unfinished' = Len(asyncs)
           /\ syncs' = InOrder({l \in loaders : ~ldef[l].LoadAsync})
           /\ pc' = IF r.raised THEN "raised"
                    ELSE IF ~go \/ NothingToOffer(loaders) THEN "returned"
                    ELSE "dispatch"
    /\ UNCHANGED <<registryVars, loaderVars, plugins>>

\* Lines 111-119: the pool is started, or process_completers is entered.
UsesPoolAlways(n) == TRUE

UsesPool(n) == n > FanOutThreshold

Dispatch ==
    /\ pc = "dispatch"
    /\ IF UsesPool(Len(aq))
       THEN /\ wk' = [w \in Workers |-> [pc |-> "check", c |-> 0]]
            /\ spawned' = PoolSize
            /\ pc' = "sync"
       ELSE /\ pc' = "inline"
            /\ UNCHANGED <<wk, spawned>>
    /\ UNCHANGED <<registryVars, loaderVars, cq, cq0, result, plugins, vdata, nreq,
                   completion_types, collected, aq, unfinished, syncs, calls, cb, tally,
                   failed, trigfail>>

\* Lines 101-102 and 123-125: thread th calls get_completions on Loader l.
\* Yields whether the call raised.
Call(th, l, fail, raised) ==
    LET g == GetCompletions(ldef[l], ld[l], completion_types, FALSE, mtime,
                            readable, threads, l, fail)
    IN  /\ fail => (faults < MaxFaults /\ g.raised /\ g.loaded)
        /\ raised = g.raised
        /\ ld' = [ld EXCEPT ![l] = g.L]
        /\ threads' = g.ths
        /\ loads' = [loads EXCEPT ![l] = IF g.loaded THEN @ + 1 ELSE @]
        /\ faults' = IF fail THEN faults + 1 ELSE faults
        /\ cq' = cq \o g.put
        /\ cq0' = cq0 \o g.put
        /\ calls' = calls \cup {<<th, l>>}
        /\ tally' = [tally EXCEPT ![l] = [called |-> @.called + 1,
                                           put |-> @.put + Len(g.put)]]
        /\ failed' = IF g.raised THEN failed \cup {l} ELSE failed
        /\ UNCHANGED <<ldef, mtime, readable, frame, ncalls, done>>

\* Lines 95-103 in the calling thread: one Loader of the asynchronous group.
InlineCall(fail, raised) ==
    /\ pc = "inline"
    /\ aq # <<>>
    /\ aq' = Tail(aq)
    /\ Call(MainThread, Head(aq), fail, raised)
    /\ pc' = IF raised THEN "raised" ELSE "inline"
    /\ unfinished' = IF raised THEN unfinished ELSE unfinished - 1
    /\ UNCHANGED <<registryVars, result, plugins, vdata, nreq, completion_types, collected,
                   syncs, wk, spawned, cb, trigfail>>

\* Line 95: the queue is empty, process_completers returns.
InlineDone ==
    /\ pc = "inline"
    /\ aq = <<>>
    /\ pc' = "sync"
    /\ UNCHANGED <<registryVars, loaderVars, cq, cq0, result, requestVars>>

\* Lines 122-125: one Loader of the synchronous group.
SyncCall(fail, raised) ==
    /\ pc = "sync"
    /\ syncs # <<>>
    /\ syncs' = Tail(syncs)
    /\ Call(MainThread, Head(syncs), fail, raised)
    /\ pc' = IF raised THEN "raised" ELSE "sync"
    /\ UNCHANGED <<registryVars, result, plugins, vdata, nreq, completion_types, collected,
                   aq, unfinished, wk, spawned, cb, trigfail>>

SyncDone ==
    /\ pc = "sync"
    /\ syncs = <<>>
    /\ pc' = "join"
    /\ UNCHANGED <<registryVars, loaderVars, cq, cq0, result, requestVars>>

AllTasksDoneAlways(n) == TRUE

\* Queue.join(): the count of unfinished tasks has dropped to zero.
AllTasksDone(n) == n = 0

\* Line 128: async_loaders.join() returns once every task is marked done.
Join ==
    /\ pc = "join"
    /\ AllTasksDone(unfinished)
    /\ pc' = "merge"
    /\ UNCHANGED <<registryVars, loaderVars, cq, cq0, result, requestVars>>

\* Lines 48-57: the merge, the after-load callbacks, the return.
Finish(rev) ==
    /\ pc = "merge"
    /\ result' = get_completions_from_queue(cq, rev)
    /\ cq' = <<>>
    /\ cb' = [cb EXCEPT !.after = TRUE]
    /\ pc' = "returned"
    /\ UNCHANGED <<registryVars, loaderVars, cq0, plugins, vdata, nreq, completion_types,
                   collected, aq, unfinished, syncs, wk, spawned, calls, failed, tally,
                   trigfail>>

(***************************************************************************)
(* process_completers in a pool worker                                     *)
(***************************************************************************)
\* Line 95: while not completers.empty()
WorkerCheck(w) ==
    /\ wk[w].pc = "check"
    /\ wk' = [wk EXCEPT ![w].pc = IF aq = <<>> THEN "exited" ELSE "get"]
    /\ UNCHANGED <<registryVars, loaderVars, mergeVars, plugins, vdata, nreq, completion_types,
                   collected, aq, unfinished, syncs, spawned, calls, cb, failed, tally,
                   trigfail>>

\* Lines 96-99: completers.get(timeout = 0.1).  When the other worker took the
\* last Loader, get raises queue.Empty; the name Empty is not imported, so the
\* except clause raises NameError and the worker ends.
WorkerGet(w) ==
    /\ wk[w].pc = "get"
    /\ IF aq # <<>>
       THEN /\ wk' = [wk EXCEPT ![w] = [pc |-> "call", c |-> Head(aq)]]
            /\ aq' = Tail(aq)
       ELSE /\ wk' = [wk EXCEPT ![w].pc = "dead"]
            /\ aq' = aq
    /\ UNCHANGED <<registryVars, loaderVars, mergeVars, plugins, vdata, nreq, completion_types,
                   collected, unfinished, syncs, spawned, calls, cb, failed, tally,
                   trigfail>>

\* Lines 101-103: get_completions and task_done; an exception ends the worker
\* before task_done.
WorkerCall(w, fail, raised) ==
    /\ wk[w].pc = "call"
    /\ Call(w, wk[w].c, fail, raised)
    /\ wk' = [wk EXCEPT ![w] = [pc |-> IF raised THEN "dead" ELSE "check", c |-> 0]]
    /\ unfinished' = IF raised THEN unfinished ELSE unfinished - 1
    /\ UNCHANGED <<registryVars, pc, result, plugins, vdata, nreq, completion_types, collected,
                   aq, syncs, spawned, cb, trigfail>>

(***************************************************************************)
(* Spec: one aggregation request on a document.  The registered Loader     *)
(* instances are new, or hold what an earlier, finished request loaded.    *)
(***************************************************************************)
Loaded(d, mt) == [NewLoader(d, mt) EXCEPT !.completions = LoadedData(d, mt)]

Init ==
    /\ ldef = [l \in LoaderIds |-> LoaderTable(l)]
    /\ mtime = 1
    /\ readable = TRUE
    /\ \E warm \in BOOLEAN :
          ld = [l \in LoaderIds |-> IF warm THEN Loaded(ldef[l], mtime)
                                    ELSE NewLoader(ldef[l], mtime)]
    /\ threads = <<>>
    /\ loads = [l \in LoaderIds |-> 0]
    /\ faults = 0
    /\ frame = [c \in {} |-> IdleFrame]
    /\ ncalls = 0
    /\ done = <<>>
    /\ pc = "idle"
    /\ cq = <<>>
    /\ cq0 = <<>>
    /\ result = NoResult
    /\ \E n \in 0..MaxAsync, ss \in SUBSET {1, 2} :
          plugins = ss \cup {l \in LoaderIds : 2 < l /\ l <= 2 + n}
    /\ vdata = [exists |-> FALSE, scope |-> "", hash |-> <<>>, triggers |-> <<>>]
    /\ nreq = 0
    /\ completion_types = {}
    /\ collected = {}
    /\ aq = <<>>
    /\ unfinished = 0
    /\ syncs = <<>>
    /\ wk = IdleWorkers
    /\ spawned = 0
    /\ calls = {}
    /\ cb = [before |-> FALSE, after |-> FALSE]
    /\ failed = {}
    /\ trigfail = FALSE
    /\ tally = <<>>
    /\ registry = TriggerPlugins
    /\ view = [scopeAt |-> <<>>, sel |-> <<>>]
    /\ tcall = NoCall
    /\ Instances = <<>>
    /\ vloaders = <<>>
    /\ resolved = <<>>

Locations == {<<>>, <<10>>, <<0, 10>>}
Selections == {<<>>, <<10>>}
CheckOutcomes == {"handles", "nothing", "raise"}

Next ==
    \/ \E scopeAt \in [Pos -> Scopes], sel \in Selections, locs \in Locations,
          check \in [{1, 2} -> CheckOutcomes] :
          OnQueryCompletions(scopeAt, sel, locs, check)
    \/ Dispatch
    \/ \E fail, raised \in BOOLEAN : InlineCall(fail, raised)
    \/ InlineDone
    \/ \E fail, raised \in BOOLEAN : SyncCall(fail, raised)
    \/ SyncDone
    \/ Join
    \/ \E rev \in BOOLEAN : Finish(rev)
    \/ \E w \in Workers : WorkerCheck(w)
    \/ \E w \in Workers : WorkerGet(w)
    \/ \E w \in Workers, fail, raised \in BOOLEAN : WorkerCall(w, fail, raised)
    \/ \E t \in DOMAIN threads : LoadThreadWrite(t)
    \/ \E t \in DOMAIN threads : LoadThreadRaise(t)
    \/ \E t \in DOMAIN threads : LoadThreadExit(t)
    \/ Unlink

Spec == Init /\ [][Next]_vars

\* The steps of the calling thread, of a pool worker and of the load threads.
MainSteps ==
    \/ Dispatch
    \/ \E fail, raised \in BOOLEAN : InlineCall(fail, raised)
    \/ InlineDone
    \/ \E fail, raised \in BOOLEAN : SyncCall(fail, raised)
    \/ SyncDone
    \/ Join
    \/ \E rev \in BOOLEAN : Finish(rev)

WorkerSteps(w) ==
    \/ WorkerCheck(w)
    \/ WorkerGet(w)
    \/ \E fail, raised \in BOOLEAN : WorkerCall(w, fail, raised)

LoadThreadSteps ==
    \E t \in DOMAIN threads :
        LoadThreadWrite(t) \/ LoadThreadRaise(t) \/ LoadThreadExit(t)

\* Spec with every thread scheduled fairly: a thread that can take a step
\* takes one; a get_completions call returns or raises.
FairSpec ==
    /\ Spec
    /\ WF_vars(MainSteps)
    /\ \A w \in Workers : WF_vars(WorkerSteps(w))
    /\ WF_vars(LoadThreadSteps)

(***************************************************************************)
(* Properties of the aggregation request                                   *)
(***************************************************************************)
AsyncCollected == {l \in collected : ldef[l].LoadAsync}
Started == pc \notin {"idle", "dispatch"} /\ collected # {}
Spawned == {w \in DOMAIN wk : wk[w].pc # "none"}
WorkerCalls == {c \in calls : c[1] \in Workers}

\* C6: with 3 or fewer asynchronous Loaders every get_completions call is made
\* on the calling thread and no worker is spawned; with 4 or more, exactly 2
\* workers are spawned, the asynchronous Loaders are called by workers only,
\* and once the join has returned at least one worker has made a call.
C6_FanOutThreshold ==
    Started =>
        IF Cardinality(AsyncCollected) <= 3
        THEN /\ spawned = 0
             /\ Spawned = {}
             /\ \A c \in calls : c[1] = MainThread
        ELSE /\ spawned = 2
             /\ Cardinality(Spawned) = 2
             /\ \A c \in calls : ldef[c[2]].LoadAsync <=> c[1] \in Workers
             /\ pc \in {"merge", "returned"} => WorkerCalls # {}

\* Four asynchronous Loaders were drained by the pool, both workers called.
C6_Witness ==
    /\ pc = "returned"
    /\ cb.after
    /\ Cardinality(AsyncCollected) = 4
    /\ \A w \in Workers : \E c \in calls : c[1] = w
    /\ \A l \in AsyncCollected : \E c \in calls : c[2] = l

\* The scenario of C7: the synchronous StaticLoader of {"a","b"} and the
\* synchronous FileLoader of {"c"}, the category set {"func"}, the file in
\* place, and the request has returned its result.
EndToEnd ==
    /\ pc = "returned"
    /\ cb.after
    /\ plugins = {1, 2}
    /\ completion_types = {"func"}
    /\ readable

\* C7 as stated: the scenario returns (["a","b","c"], 0), no worker involved.
C7_EndToEndZeroFlags ==
    EndToEnd =>
        /\ result = [completions |-> <<"a", "b", "c">>, flags |-> 0]
        /\ spawned = 0

\* C7: the scenario returns the sorted merged list ["a","b","c"] and flags
\* INHIBIT_WORD_COMPLETIONS | INHIBIT_EXPLICIT_COMPLETIONS (24), which every
\* filter_completions pair carries; no worker is involved.
C7_EndToEnd ==
    EndToEnd =>
        /\ result = [completions |-> <<"a", "b", "c">>, flags |-> 24]
        /\ spawned = 0
        /\ \A c \in calls : c[1] = MainThread

C7_Witness ==
    /\ EndToEnd
    /\ calls = {<<MainThread, 1>>, <<MainThread, 2>>}
    /\ loads[1] = 1
    /\ loads[2] = 1
    /\ result.completions = <<"a", "b", "c">>

\* The join can never return: a task is left unfinished and no worker runs.
Blocked ==
    /\ pc = "join"
    /\ unfinished > 0
    /\ \A w \in DOMAIN wk : wk[w].pc \in {"none", "exited", "dead"}

\* C8: a Loader whose get_completions raises neither aborts the aggregation
\* request nor blocks it.
C8_LoaderFailureIsolated ==
    failed # {} => (pc # "raised" /\ ~Blocked)

\* C9: a Trigger whose selection score or selection_check raises does not
\* make the request raise.
C9_TriggerFailureIsolated ==
    trigfail => pc # "raised"

\* Loader l is as it was before the request.
Untouched(l) ==
    /\ ld[l] \in {NewLoader(ldef[l], 1), Loaded(ldef[l], 1)}
    /\ loads[l] = 0

\* C10: when the Triggers yield no category, or no Loader instance is
\* collected, the request returns None without raising, calls get_completions
\* on no Loader, leaves every Loader as it was and does not run the
\* after-load callbacks.
C10_NothingToOffer ==
    (pc # "idle" /\ ~trigfail /\ (completion_types = {} \/ plugins = {})) =>
        /\ pc = "returned"
        /\ result = NoResult
        /\ calls = {}
        /\ threads = <<>>
        /\ \A l \in LoaderIds : Untouched(l)
        /\ ~cb.after

\* Loaders hold loaded caches, the Triggers yielded nothing, None is returned.
C10_Witness ==
    /\ pc = "returned"
    /\ completion_types = {}
    /\ plugins = {1, 2, 3}
    /\ ld[2] = Loaded(ldef[2], 1)
    /\ result = NoResult
    /\ ~cb.before

\* The contributions other than the placeholder.
Real(q) == SelectSeq(q, LAMBDA c : c.shape # "single")

\* C11: the result of a request is the merge of the contributions other than
\* the placeholders: a Loader that is still loading adds no item and no flag.
C11_PlaceholderNeutral ==
    (pc = "returned" /\ cb.after) =>
        result = get_completions_from_queue(Real(cq0), FALSE)

\* The request has returned the items of two Loaders while the load thread of
\* a third, which put the placeholder, is still running.
C11_Witness ==
    /\ pc = "returned"
    /\ cb.after
    /\ \E i \in 1..Len(cq0) : cq0[i] = EmptyReturn
    /\ \E t \in DOMAIN threads : threads[t].st = "alive" /\ ld[threads[t].l].loading
    /\ result = [completions |-> <<"a", "b", "c">>, flags |-> 24]

\* C13: add_completions_to_queue, once entered, is left: the join returns and
\* the merge is reached, or the call raises.
C13_AggregationTerminates ==
    (pc = "dispatch") ~> (pc \in {"merge", "returned", "raised"})

SyncCalls == {c \in calls : ~ldef[c[2]].LoadAsync}

\* C20: a synchronous Loader is called on the calling thread only, and only
\* once both workers are started or the inline pass over the asynchronous
\* Loaders is over; the merge starts only when every synchronous Loader has
\* been called and no queued asynchronous Loader is left unfinished.
C20_SyncAfterAsyncDispatch ==
    /\ \A c \in SyncCalls : c[1] = MainThread
    /\ SyncCalls # {} =>
          \/ Cardinality(Spawned) = 2
          \/ /\ Spawned = {}
             /\ aq = <<>>
             /\ \A l \in AsyncCollected : <<MainThread, l>> \in calls
    /\ (pc = "merge" \/ (pc = "returned" /\ cb.after)) =>
          /\ \A l \in collected \ AsyncCollected : <<MainThread, l>> \in calls
          /\ \A l \in AsyncCollected : \E c \in calls : c[2] = l
          /\ unfinished = 0
          /\ aq = <<>>

\* Two synchronous Loaders and a pool over four asynchronous ones.
C20_Witness ==
    /\ pc = "merge"
    /\ Cardinality(Spawned) = 2
    /\ SyncCalls = {<<MainThread, 1>>, <<MainThread, 2>>}
    /\ Cardinality(AsyncCollected) = 4
    /\ \E w \in Workers : wk[w].pc = "check"

\* The collected Loaders whose capabilities intersect the requested types.
Concerned == {l \in collected : ldef[l].caps \cap completion_types # {}}

\* get_completions_from_queue is about to drain the queue, or has drained it.
DrainStarted == pc = "merge" \/ (pc = "returned" /\ cb.after)

\* C23: in one aggregation request no Loader is called twice or puts twice;
\* when get_completions_from_queue starts, every collected Loader whose
\* capabilities intersect the requested types has been called exactly once
\* and has put exactly one item, the other Loaders have put nothing, and the
\* queue holds one item per concerned Loader.
C23_OneContributionPerLoader ==
    /\ \A l \in DOMAIN tally : tally[l].called <= 1 /\ tally[l].put <= tally[l].called
    /\ \A l \in DOMAIN tally \ Concerned : tally[l].put = 0
    /\ DrainStarted =>
          /\ \A l \in Concerned : tally[l].called = 1 /\ tally[l].put = 1
          /\ Len(cq0) = Cardinality(Concerned)
          /\ pc = "merge" => cq = cq0

\* Four asynchronous Loaders went through the pool, both workers made calls;
\* the asynchronous Loader of the requested type put the placeholder, the two
\* synchronous Loaders put their completions, and the three Loaders whose
\* capabilities do not intersect the request were called and put nothing.
C23_Witness ==
    /\ pc = "merge"
    /\ Cardinality(AsyncCollected) = 4
    /\ \A w \in Workers : \E c \in calls : c[1] = w
    /\ Cardinality(Concerned) = 3
    /\ Cardinality(Concerned \cap AsyncCollected) = 1
    /\ Len(cq0) = 3
    /\ \E l \in collected \ Concerned : tally[l].called = 1 /\ tally[l].put = 0
    /\ \E i \in 1..Len(cq0) : cq0[i] = EmptyReturn
    /\ \E i \in 1..Len(cq0) : cq0[i] # EmptyReturn

(***************************************************************************)
(* TriggerSpec: a document whose scopes and selection change, Trigger      *)
(* types that are registered and unregistered, and calls of                *)
(* ViewData.get_triggers_for_view on the document                          *)
(***************************************************************************)
TriggerIds == {1, 2}
ScopeNames ==
    {<<"source.python">>, <<"source.python", "string.quoted">>, <<"text.plain">>}
ViewSelections == {<<>>, <<10>>, <<0, 10>>}

TriggerInit ==
    /\ ldef = <<>>
    /\ ld = <<>>
    /\ threads = <<>>
    /\ loads = <<>>
    /\ mtime = 1
    /\ readable = TRUE
    /\ faults = 0
    /\ frame = <<>>
    /\ ncalls = 0
    /\ done = <<>>
    /\ pc = "none"
    /\ cq = <<>>
    /\ cq0 = <<>>
    /\ result = NoResult
    /\ NoRequest
    /\ registry = <<>>
    /\ view = [scopeAt |-> [p \in Pos |-> <<"text.plain">>], sel |-> <<>>]
    /\ tcall = NoCall
    /\ Instances = <<>>
    /\ vloaders = <<>>
    /\ resolved = <<>>

\* The syntax of the document changes at point p.
SetScope(p, sc) ==
    /\ view.scopeAt[p] # sc
    /\ view' = [view EXCEPT !.scopeAt[p] = sc]
    /\ UNCHANGED <<loaderVars, mergeVars, requestVars, instanceVars, registry, tcall>>

\* The selection of the document changes.
Select(sel) ==
    /\ view.sel # sel
    /\ view' = [view EXCEPT !.sel = sel]
    /\ UNCHANGED <<loaderVars, mergeVars, requestVars, instanceVars, registry, tcall>>

\* A CompletionTrigger subclass is defined: get_plugins() yields it.
Register(t) ==
    /\ \A i \in 1..Len(registry) : registry[i] # t
    /\ registry' = Append(registry, t)
    /\ UNCHANGED <<loaderVars, mergeVars, requestVars, instanceVars, view, tcall>>

\* A CompletionTrigger subclass is removed.
Deregister(t) ==
    /\ \E i \in 1..Len(registry) : registry[i] = t
    /\ registry' = SelectSeq(registry, LAMBDA x : x # t)
    /\ UNCHANGED <<loaderVars, mergeVars, requestVars, instanceVars, view, tcall>>

\* ViewData.get_triggers_for_view(view), lines 511-527.
GetTriggersForView ==
    LET scope == scope_from_view(view.scopeAt, view.sel)
        hash_ == get_triggers_hash(registry)
        d == get_data(vdata, registry, view.scopeAt, view.sel)
        update == NeedsUpdate(d, scope, hash_)
        computes == ~vdata.exists \/ update
    IN  /\ vdata' = ViewDataTriggers(vdata, registry, view.scopeAt, view.sel)
        /\ tcall' =
              [valid |-> TRUE,
               stored |-> [scope |-> d.scope, hash |-> d.hash],
               now |-> [scope |-> scope, hash |-> hash_],
               recomputed |-> update,
               entry |-> vdata',
               ret |-> vdata'.triggers,
               under |-> IF computes THEN [scope |-> scope, hash |-> hash_]
                         ELSE tcall.under,
               computed |-> IF computes
                            THEN get_triggers_for_view(registry, view.scopeAt, view.sel)
                            ELSE tcall.computed]
        /\ UNCHANGED <<loaderVars, mergeVars, instanceVars, registry, view,
                       plugins, nreq, completion_types, collected, aq,
                       unfinished, syncs, wk, spawned, calls, cb, failed, trigfail, tally>>

TriggerNext ==
    \/ \E p \in Pos, sc \in ScopeNames : SetScope(p, sc)
    \/ \E sel \in ViewSelections : Select(sel)
    \/ \E t \in TriggerIds : Register(t)
    \/ \E t \in TriggerIds : Deregister(t)
    \/ GetTriggersForView

TriggerSpec == TriggerInit /\ [][TriggerNext]_vars

\* C19: a call of ViewData.get_triggers_for_view recomputes the Trigger list
\* exactly when the scope or the hash stored in the document's entry differs
\* from the current primary scope or the current hash of the Trigger types;
\* on return the entry stores the current scope and hash, and the list
\* returned is the one that was computed under that scope and hash.
C19_TriggerCacheValid ==
    tcall.valid =>
        /\ tcall.recomputed <=> (\/ tcall.stored.scope # tcall.now.scope
                                 \/ tcall.stored.hash # tcall.now.hash)
        /\ tcall.entry.scope = tcall.now.scope
        /\ tcall.entry.hash = tcall.now.hash
        /\ tcall.ret = tcall.computed
        /\ tcall.under = tcall.now

\* A Trigger type was registered since the list was computed: the call
\* recomputes it, the primary scope being as stored.
C19_Witness ==
    /\ tcall.valid
    /\ tcall.recomputed
    /\ tcall.stored.scope = tcall.now.scope
    /\ tcall.stored.hash = <<"T1">>
    /\ tcall.now.hash = <<"T1", "T2">>
    /\ tcall.ret = <<1, 2>>

(***************************************************************************)
(* InstanceSpec: the Loader instances kept per identity key in             *)
(* cls.Instances, as instances_for_view, add_loader_to_view and            *)
(* remove_loader_from_view construct them and look them up                 *)
(***************************************************************************)
ClassNames == {"S", "V", "F", "P"}
Views == {"v1", "v2"}
Paths == {"p"}
Keys == {"S", "None"} \cup Views \cup Paths
NoInstance == 0

\* A StaticLoader, a ViewLoader, a FileLoader and a PathLoader subclass, all
\* synchronous.
InstanceClass(c) ==
    CASE c = "S" -> LoaderClass("static", FALSE, {"func"}, FlatCache({"a", "b"}))
      [] c = "V" -> LoaderClass("view", FALSE, {"func"}, FlatCache({"a"}))
      [] c = "F" -> LoaderClass("file", FALSE, {"func"}, EmptyCache)
      [] OTHER -> LoaderClass("path", FALSE, {"func"}, FlatCache({"b"}))

\* Lines 148-153, 384-391, 429-435, 480-486: instance_key of an instance of
\* class c built with the keyword argument arg (view, file_path or path).
instance_key(c, arg) == IF c = "S" THEN "S" ELSE arg

\* The keyword arguments a class is constructed with for view v.
KeyArgs(c, v) ==
    CASE c = "S" -> {"S"}
      [] c = "V" -> {v}
      [] OTHER -> Paths

InstanceInit ==
    /\ ldef = <<>>
    /\ ld = <<>>
    /\ threads = <<>>
    /\ loads = <<>>
    /\ mtime = 1
    /\ readable = TRUE
    /\ faults = 0
    /\ frame = <<>>
    /\ ncalls = 0
    /\ done = <<>>
    /\ pc = "none"
    /\ cq = <<>>
    /\ cq0 = <<>>
    /\ result = NoResult
    /\ NoRequest
    /\ registry = <<>>
    /\ view = [scopeAt |-> <<>>, sel |-> <<>>]
    /\ tcall = NoCall
    /\ Instances = [c \in ClassNames |-> [k \in Keys |-> NoInstance]]
    /\ vloaders = [v \in Views |-> {}]
    /\ resolved = [k \in ClassNames \X Keys |-> <<>>]

\* History: the last two resolutions of a key.
Last2(rs, r) == IF rs = <<>> THEN <<r>> ELSE <<rs[Len(rs)], r>>

\* Lines 128-146 and 156-158: cls(...) builds an instance and add_instance
\* stores it under its key.  The new heap and the new Instances.
Construct(c, key) ==
    [ld |-> Append(ld, NewLoader(InstanceClass(c), mtime)),
     ldef |-> Append(ldef, InstanceClass(c)),
     loads |-> Append(loads, 0),
     Instances |-> [Instances EXCEPT ![c][key] = Len(ld) + 1],
     obj |-> Len(ld) + 1]

\* Lookup in cls.Instances: a held instance is reused.
Reuse(c, key) ==
    [ld |-> ld, ldef |-> ldef, loads |-> loads, Instances |-> Instances,
     obj |-> Instances[c][key]]

ResolveAlwaysNew(c, key) == Construct(c, key)

\* Lines 193-197, 354-363, 393-405: instances_for_view of a StaticLoader or a
\* ViewLoader looks the key up and constructs on a miss; the FileLoader and
\* the PathLoader inherit "return [cls()]".
Resolve(c, key) ==
    IF c \in {"S", "V"} /\ Instances[c][key] # NoInstance
    THEN Reuse(c, key)
    ELSE Construct(c, key)

\* A request: instances_for_view(view) and get_completions on the instance.
InstancesForView(c, v) ==
    /\ c # "F"
    /\ ncalls < MaxCalls
    /\ ncalls' = ncalls + 1
    /\ LET key == CASE c = "S" -> "S" [] c = "V" -> v [] OTHER -> "None"
           r == Resolve(c, key)
           g == GetCompletions(r.ldef[r.obj], r.ld[r.obj], {"func"}, FALSE,
                               mtime, readable, threads, r.obj, FALSE)
       IN  /\ Len(r.ld) <= MaxObjs
           /\ ld' = [r.ld EXCEPT ![r.obj] = g.L]
           /\ ldef' = r.ldef
           /\ loads' = [r.loads EXCEPT ![r.obj] = IF g.loaded THEN @ + 1 ELSE @]
           /\ Instances' = r.Instances
           /\ resolved' = [resolved EXCEPT ![<<c, key>>] =
                              Last2(@, [obj |-> r.obj, seen |-> r.ld[r.obj],
                                        left |-> g.L])]
    /\ UNCHANGED <<threads, mtime, readable, faults, frame, done,
                   mergeVars, requestVars, triggerVars, vloaders>>

\* FileLoader.instances_for_view: cls() has file_path = None, and
\* os.path.getmtime(None) raises in __init__ (line 422).
InstancesForViewRaise(c) ==
    /\ c = "F"
    /\ faults < MaxFaults
    /\ faults' = faults + 1
    /\ UNCHANGED <<ldef, ld, threads, loads, mtime, readable, frame, ncalls, done,
                   mergeVars, requestVars, registryVars>>

\* Lines 199-202: add_loader_to_view constructs cls(view = view, **kwargs) and
\* adds it to the loaders of the view.
AddLoaderToView(c, v, arg) ==
    /\ Len(ld) < MaxObjs
    /\ LET key == instance_key(c, arg)
           r == Construct(c, key)
       IN  /\ ld' = r.ld
           /\ ldef' = r.ldef
           /\ loads' = r.loads
           /\ Instances' = r.Instances
           /\ vloaders' = [vloaders EXCEPT ![v] = @ \cup {r.obj}]
           /\ resolved' = [resolved EXCEPT ![<<c, key>>] =
                              Last2(@, [obj |-> r.obj, seen |-> r.ld[r.obj],
                                        left |-> r.ld[r.obj]])]
    /\ UNCHANGED <<threads, mtime, readable, faults, frame, ncalls, done,
                   mergeVars, requestVars, triggerVars>>

\* Lines 204-207 and 534-540: remove_loader_from_view constructs
\* cls(view = view, **kwargs) and removes that instance from the loaders of
\* the view; the KeyError of a Loader that is not there is logged.
RemoveLoaderFromView(c, v, arg) ==
    /\ Len(ld) < MaxObjs
    /\ LET key == instance_key(c, arg)
           r == Construct(c, key)
       IN  /\ ld' = r.ld
           /\ ldef' = r.ldef
           /\ loads' = r.loads
           /\ Instances' = r.Instances
           /\ vloaders' = [vloaders EXCEPT ![v] = @ \ {r.obj}]
           /\ resolved' = [resolved EXCEPT ![<<c, key>>] =
                              Last2(@, [obj |-> r.obj, seen |-> r.ld[r.obj],
                                        left |-> r.ld[r.obj]])]
    /\ UNCHANGED <<threads, mtime, readable, faults, frame, ncalls, done,
                   mergeVars, requestVars, triggerVars>>

InstanceNext ==
    \/ \E c \in ClassNames, v \in Views : InstancesForView(c, v)
    \/ \E c \in ClassNames : InstancesForViewRaise(c)
    \/ \E c \in ClassNames, v \in Views :
          \E arg \in KeyArgs(c, v) : AddLoaderToView(c, v, arg)
    \/ \E c \in ClassNames, v \in Views :
          \E arg \in KeyArgs(c, v) : RemoveLoaderFromView(c, v, arg)

InstanceSpec == InstanceInit /\ [][InstanceNext]_vars

\* C12: two requests for a Loader of the same class and identity key that
\* follow one another resolve to the same instance, the later finding the
\* completions and the loading flag the earlier left; and the instance a key
\* was first resolved to stays the one cls.Instances holds for the key.
C12_IdentityKeyReuse ==
    \A k \in DOMAIN resolved :
        /\ Len(resolved[k]) = 2 =>
              /\ resolved[k][2].obj = resolved[k][1].obj
              /\ resolved[k][2].seen = resolved[k][1].left
        /\ Len(resolved[k]) >= 1 =>
              Instances[k[1]][k[2]] = resolved[k][Len(resolved[k])].obj

\* The class of a constructed instance.
ClassOf(defs, o) == CHOOSE c \in ClassNames : InstanceClass(c) = defs[o]

\* The Loaders of class c among the loaders of a view.  For one view every
\* instance of a class is built with the same identity key (KeyArgs has one
\* element), so these are the Loaders of the view for that key.
ForKey(defs, S, c) == {o \in S : ClassOf(defs, o) = c}

\* C21: remove_loader_from_view leaves the loaders of the view without a
\* Loader of that class and identity key and takes nothing else away, and
\* add_loader_to_view leaves exactly one Loader for that key in the set.
C21_AttachDetachRoundTrip ==
    [][\A c \in ClassNames, v \in Views :
          \A arg \in KeyArgs(c, v) :
              /\ RemoveLoaderFromView(c, v, arg) =>
                    vloaders'[v] = vloaders[v] \ ForKey(ldef, vloaders[v], c)
              /\ AddLoaderToView(c, v, arg) =>
                    Cardinality(ForKey(ldef', vloaders'[v], c)) = 1]_vars

====
